---- MODULE Spec2Model ----
(***************************************************************************)
(* fatshuffle.py: FatImageAccessor over a FAT16 image.                     *)
(*                                                                         *)
(* The image is modelled sparsely.  Cluster numbers and FAT words keep     *)
(* their 16-bit values.  Only the clusters of Tracked are stored; every    *)
(* other cluster of the volume is a free cluster (FAT word 0) that the     *)
(* drawn permutation leaves in place, so line 144 skips it and line 173    *)
(* writes back clustermap[0] = 0: the code does not change it.             *)
(* A cluster's bytes are its 32-byte slots, each slot the fields a         *)
(* FatDirectoryEntry reads: byte 0, the stripped name, the attribute byte  *)
(* and the 16-bit word at 0x1a.                                            *)
(***************************************************************************)
EXTENDS Integers, Sequences, FiniteSets, TLC

VARIABLES bpb, pc, root, clusters, fat, clustermap, swapmap, i, target,
          nexttarget, data, nextdata, oldfat, k, visited, descended,
          image, clusters0, fat0, root0, reads, writes, runs

vars == <<bpb, pc, root, clusters, fat, clustermap, swapmap, i, target,
          nexttarget, data, nextdata, oldfat, k, visited, descended,
          image, clusters0, fat0, root0, reads, writes, runs>>

\* Bounds of the model.
MaxCluster == 5
MaxRuns == 2

\* Python's None, as a cluster number that no cluster has
None == -1

\* a local that holds no bytes yet
NoData == <<>>

(***************************************************************************)
(* Geometry: FatImageAccessor.__init__                                     *)
(***************************************************************************)
\* ceil(a / b) for a >= 0, b > 0
Ceil(a, b) == (a + b - 1) \div b

\* self.totalsectorcount16 or self.totalsectorcount32
totalsectorcount(b) ==
    IF b.totalsectorcount16 # 0 THEN b.totalsectorcount16 ELSE b.totalsectorcount32

number_of_clusters(b) ==
    2 + (totalsectorcount(b) - b.reservedsectors - b.numberoffats * b.sectorsperfat
           - Ceil(32 * b.rootdirentrycount, b.sectorsize)) \div b.sectorspercluster

\* a mutant: the lower limit is excluded
ClusterCountStrictlyAbove(n) == n > 4086 /\ n <= 65525

\* the assertion of line 101
ClusterCountAccepted(n) == n >= 4086 /\ n <= 65525

\* self.sectorspercluster * self.sectorsize // 32
SlotsPerCluster(b) == (b.sectorspercluster * b.sectorsize) \div 32

\* size = self.sectorsize * self.sectorspercluster, counted in 32-byte slots
ClusterSize(b) == SlotsPerCluster(b)

(***************************************************************************)
(* The images the shuffle is run on.                                       *)
(***************************************************************************)
\* 40002 clusters, 16 slots per cluster, 16 root directory slots, two FATs
ShuffleBPB ==
    [sectorsize |-> 512, sectorspercluster |-> 1, reservedsectors |-> 1,
     numberoffats |-> 2, rootdirentrycount |-> 16, totalsectorcount16 |-> 40322,
     sectorsperfat |-> 160, totalsectorcount32 |-> 0]

\* a FAT12-sized volume: 2002 clusters
SmallBPB ==
    [sectorsize |-> 512, sectorspercluster |-> 1, reservedsectors |-> 1,
     numberoffats |-> 2, rootdirentrycount |-> 16, totalsectorcount16 |-> 2018,
     sectorsperfat |-> 8, totalsectorcount32 |-> 0]

Tracked == (2 .. MaxCluster) \cup {32767}
FatIndex == {1} \cup Tracked

EndSlot == [first |-> 0, name |-> "", attr |-> 0, start |-> 0]
File(n, s) == [first |-> 65, name |-> n, attr |-> 32, start |-> s]
Dir(n, s) == [first |-> 65, name |-> n, attr |-> 16, start |-> s]
Dot(s) == [first |-> 46, name |-> ".", attr |-> 16, start |-> s]
DotDot(s) == [first |-> 46, name |-> "..", attr |-> 16, start |-> s]
Label(n, s) == [first |-> 65, name |-> n, attr |-> 8, start |-> s]
Deleted(n, s) == [first |-> 229, name |-> n, attr |-> 32, start |-> s]

Pad(seq, n) == seq \o [s \in 1 .. (n - Len(seq)) |-> EndSlot]
PadCluster(seq) == Pad(seq, SlotsPerCluster(ShuffleBPB))

\* file data of cluster c: bytes that begin with 0x00 and differ per cluster
Payload(c) ==
    [s \in 1 .. SlotsPerCluster(ShuffleBPB) |->
        [first |-> 0, name |-> "", attr |-> 0, start |-> 1000 + c]]

\* one FAT copy: word 1 is 0xFFFF, the listed words, every other cluster free
FatOf(words) ==
    [c \in FatIndex |->
        IF c = 1 THEN 65535 ELSE IF c \in DOMAIN words THEN words[c] ELSE 0]

ClustersOf(dirs) ==
    [c \in Tracked |-> IF c \in DOMAIN dirs THEN PadCluster(dirs[c]) ELSE Payload(c)]

\* A.TXT in clusters 5, 3, 2; SUB in cluster 4 holding B.TXT in cluster 32767
TreeImage ==
    [root |-> Pad(<<Label("VOL", 0), File("A", 5), Dir("SUB", 4)>>,
                  ShuffleBPB.rootdirentrycount),
     clusters |-> ClustersOf(4 :> <<Dot(4), DotDot(0), File("B", 32767)>>),
     fat |-> LET f == FatOf(5 :> 3 @@ 3 :> 2 @@ 2 :> 65535 @@ 4 :> 65535 @@ 32767 :> 65535)
             IN <<f, f>>]

\* SUB in cluster 2 holding SUB2 in cluster 3 holding C in cluster 32767
NestedImage ==
    [root |-> Pad(<<Deleted("OLD", 4), Dir("SUB", 2)>>,
                  ShuffleBPB.rootdirentrycount),
     clusters |-> ClustersOf(
         2 :> <<Dot(2), DotDot(0), Deleted("X", 4), Dir("SUB2", 3), File("EMPTY", 0)>>
      @@ 3 :> <<Dot(3), DotDot(2), File("C", 32767)>>),
     fat |-> LET f == FatOf(2 :> 65535 @@ 3 :> 65535 @@ 32767 :> 65535)
             IN <<f, f>>]

\* D spans clusters 2, 4: cluster 2 is full, cluster 4 continues it
FullDirImage ==
    [root |-> Pad(<<Dir("D", 2)>>, ShuffleBPB.rootdirentrycount),
     clusters |-> ClustersOf(
         2 :> (<<Dot(2), DotDot(0)>> \o [s \in 1 .. 13 |-> File("E", 0)]
                 \o <<Deleted("X", 3)>>)
      @@ 4 :> <<File("F", 3)>>),
     fat |-> LET f == FatOf(2 :> 4 @@ 4 :> 65535 @@ 3 :> 65535)
             IN <<f, f>>]

\* D spans clusters 2, 4 and ends inside cluster 2; cluster 4 holds an old
\* entry; the volume label has a nonzero word at 0x1a; the second FAT copy
\* is out of date
StaleDirImage ==
    [root |-> Pad(<<Label("VOL", 3), Dir("D", 2)>>, ShuffleBPB.rootdirentrycount),
     clusters |-> ClustersOf(
         2 :> <<Dot(2), DotDot(0)>>
      @@ 4 :> <<File("G", 3)>>),
     fat |-> <<FatOf(2 :> 4 @@ 4 :> 65535),
               FatOf(2 :> 4 @@ 4 :> 65535 @@ 3 :> 65535)>>]

Images ==
    [tree |-> TreeImage, nested |-> NestedImage,
     fulldir |-> FullDirImage, staledir |-> StaleDirImage]

(***************************************************************************)
(* Cluster store                                                           *)
(***************************************************************************)
\* a mutant: the slice runs one cluster too far
ReadTwoClusters(cl, cn) ==
    cl[cn] \o (IF cn + 1 \in DOMAIN cl THEN cl[cn + 1] ELSE Payload(cn + 1))

\* read_clusterdata: a copy of the cluster's bytes
read_clusterdata(cl, cn) == cl[cn]

\* write_clusterdata, after its assertion
write_clusterdata(cl, cn, d) == [cl EXCEPT ![cn] = d]

\* clustermap[c]; an untracked cluster is a fixed point of the permutation
CM(c) == IF c \in DOMAIN clustermap THEN clustermap[c] ELSE c

\* the index after j in range(2, len(clustermap)) that is not skipped
NextIndex(j) ==
    IF \E c \in Tracked : c > j
    THEN CHOOSE c \in Tracked : c > j /\ \A d \in Tracked : d > j => c <= d
    ELSE number_of_clusters(bpb)

\* every result of sample(range(...), k=len): the bijections of S
Samples(S) == {f \in [S -> S] : \A a, b \in S : f[a] = f[b] => a = b}

NoLocals ==
    /\ clustermap = <<>> /\ swapmap = <<>> /\ i = 0 /\ target = None
    /\ nexttarget = None /\ data = NoData /\ nextdata = NoData /\ oldfat = <<>>
    /\ k = 0 /\ visited = <<>> /\ descended = <<>>
    /\ clusters0 = <<>> /\ fat0 = <<>> /\ root0 = <<>>
    /\ reads = {} /\ writes = <<>>

Init ==
    /\ image \in DOMAIN Images
    /\ bpb \in {ShuffleBPB, SmallBPB}
    /\ pc = "new"
    /\ root = Images[image].root
    /\ clusters = Images[image].clusters
    /\ fat = Images[image].fat
    /\ runs = 0
    /\ NoLocals

\* fat = FatImageAccessor(f, offset=args.offset)
Construct ==
    /\ pc = "new"
    /\ pc' = IF ClusterCountAccepted(number_of_clusters(bpb))
             THEN "constructed" ELSE "failed"
    /\ UNCHANGED <<bpb, root, clusters, fat, clustermap, swapmap, i, target,
                   nexttarget, data, nextdata, oldfat, k, visited, descended,
                   image, clusters0, fat0, root0, reads, writes, runs>>

\* clustermap = [0, 1] + sample(range(2, n), k=n-2); swapmap = list(clustermap)
DrawClustermap ==
    /\ pc = "constructed"
    /\ \E p \in Samples(Tracked) :
          clustermap' = [c \in {0, 1} \cup Tracked |-> IF c \in Tracked THEN p[c] ELSE c]
    /\ swapmap' = clustermap'
    /\ i' = 2
    /\ pc' = "outer"
    /\ clusters0' = clusters /\ fat0' = fat /\ root0' = root
    /\ reads' = {} /\ writes' = [c \in Tracked |-> 0]
    /\ runs' = runs + 1
    /\ UNCHANGED <<bpb, root, clusters, fat, target, nexttarget, data, nextdata,
                   oldfat, k, visited, descended, image>>

\* for i in range(2, len(swapmap)): if target == i: continue
SwapSkip ==
    /\ pc = "outer" /\ i < number_of_clusters(bpb)
    /\ swapmap[i] = i
    /\ target' = swapmap[i]
    /\ i' = NextIndex(i)
    /\ UNCHANGED <<bpb, pc, root, clusters, fat, clustermap, swapmap,
                   nexttarget, data, nextdata, oldfat, k, visited, descended,
                   image, clusters0, fat0, root0, reads, writes, runs>>

\* data = self.read_clusterdata(i); swapmap[i] = None
SwapBegin ==
    /\ pc = "outer" /\ i < number_of_clusters(bpb)
    /\ swapmap[i] # i
    /\ target' = swapmap[i]
    /\ data' = read_clusterdata(clusters, i)
    /\ reads' = reads \cup {i}
    /\ swapmap' = [swapmap EXCEPT ![i] = None]
    /\ pc' = "inner"
    /\ UNCHANGED <<bpb, root, clusters, fat, clustermap, i, nexttarget, nextdata,
                   oldfat, k, visited, descended, image, clusters0, fat0, root0,
                   writes, runs>>

\* a mutant: the target slot is not read before it is overwritten
SwapReadSkipped ==
    /\ pc = "inner" /\ target # None
    /\ nexttarget' = swapmap[target]
    /\ nextdata' = data
    /\ pc' = "write"
    /\ UNCHANGED <<bpb, root, clusters, fat, clustermap, swapmap, i, target, data,
                   oldfat, k, visited, descended, image, clusters0, fat0, root0,
                   reads, writes, runs>>

\* nexttarget = swapmap[target]; nextdata = self.read_clusterdata(target)
SwapRead ==
    /\ pc = "inner" /\ target # None
    /\ nexttarget' = swapmap[target]
    /\ nextdata' = read_clusterdata(clusters, target)
    /\ reads' = reads \cup {target}
    /\ pc' = "write"
    /\ UNCHANGED <<bpb, root, clusters, fat, clustermap, swapmap, i, target, data,
                   oldfat, k, visited, descended, image, clusters0, fat0, root0,
                   writes, runs>>

\* a mutant: the data read from the slot is not carried on
SwapWriteNoCarry ==
    /\ pc = "write"
    /\ clusters' = write_clusterdata(clusters, target, data)
    /\ writes' = [writes EXCEPT ![target] = @ + 1]
    /\ swapmap' = [swapmap EXCEPT ![target] = target]
    /\ target' = nexttarget
    /\ pc' = "inner"
    /\ UNCHANGED <<bpb, root, fat, clustermap, i, nexttarget, data, nextdata, oldfat,
                   k, visited, descended, image, clusters0, fat0, root0, reads, runs>>

\* self.write_clusterdata(target, data); swapmap[target] = target;
\* target = nexttarget; data = nextdata
SwapWrite ==
    /\ pc = "write"
    /\ IF Len(data) = ClusterSize(bpb)
       THEN /\ clusters' = write_clusterdata(clusters, target, data)
            /\ writes' = [writes EXCEPT ![target] = @ + 1]
            /\ swapmap' = [swapmap EXCEPT ![target] = target]
            /\ target' = nexttarget
            /\ data' = nextdata
            /\ pc' = "inner"
       ELSE /\ pc' = "failed"
            /\ UNCHANGED <<clusters, writes, swapmap, target, data>>
    /\ UNCHANGED <<bpb, root, fat, clustermap, i, nexttarget, nextdata, oldfat,
                   k, visited, descended, image, clusters0, fat0, root0, reads, runs>>

\* while target is not None: the cycle is closed
SwapCycleDone ==
    /\ pc = "inner" /\ target = None
    /\ i' = NextIndex(i)
    /\ pc' = "outer"
    /\ UNCHANGED <<bpb, root, clusters, fat, clustermap, swapmap, target,
                   nexttarget, data, nextdata, oldfat, k, visited, descended,
                   image, clusters0, fat0, root0, reads, writes, runs>>

\* the loop of line 141 is over; oldfat = self.data[fat_offset : ...]
SnapshotFat ==
    /\ pc = "outer" /\ i >= number_of_clusters(bpb)
    /\ oldfat' = fat[1]
    /\ k' = 0
    /\ i' = 2
    /\ pc' = "fat"
    /\ UNCHANGED <<bpb, root, clusters, fat, clustermap, swapmap, target,
                   nexttarget, data, nextdata, visited, descended,
                   image, clusters0, fat0, root0, reads, writes, runs>>

\* a FAT word of an untracked cluster: free
FatWord(f, c) == IF c \in DOMAIN f THEN f[c] ELSE 0

\* a mutant: o is read from the FAT copy being rewritten, not from the snapshot
OldWordFromLiveFat(c) == FatWord(fat[k + 1], c)

\* o, = struct.unpack('<H', oldfat[2*i:2*i+2])
OldWord(c) == FatWord(oldfat, c)

\* if o < len(clustermap): n = clustermap[o] else: n = o
NewWord(o) == IF o < number_of_clusters(bpb) THEN CM(o) ELSE o

\* self.data[offset:offset+2] = struct.pack('<H', n), offset at clustermap[i]
RewriteFatEntry ==
    /\ pc = "fat" /\ i < number_of_clusters(bpb)
    /\ fat' = [fat EXCEPT ![k + 1][clustermap[i]] = NewWord(OldWord(i))]
    /\ i' = NextIndex(i)
    /\ UNCHANGED <<bpb, pc, root, clusters, clustermap, swapmap, target,
                   nexttarget, data, nextdata, oldfat, k, visited, descended,
                   image, clusters0, fat0, root0, reads, writes, runs>>

\* byte 3 of a FAT copy is the high byte of word 1: w with (high & 0x7f)
MaskHighByte(w) == ((w \div 256) % 128) * 256 + (w % 256)

\* self.data[fatoffset+3] = self.data[fatoffset+3] & 0x7f; the next copy
SetScandiskFlag ==
    /\ pc = "fat" /\ i >= number_of_clusters(bpb)
    /\ fat' = [fat EXCEPT ![k + 1][1] = MaskHighByte(@)]
    /\ k' = k + 1
    /\ i' = 2
    /\ pc' = IF k + 1 < bpb.numberoffats THEN "fat" ELSE "fixup"
    /\ UNCHANGED <<bpb, root, clusters, clustermap, swapmap, target,
                   nexttarget, data, nextdata, oldfat, visited, descended,
                   image, clusters0, fat0, root0, reads, writes, runs>>

(***************************************************************************)
(* FAT chain walker and directory walker                                   *)
(***************************************************************************)
is_directory(e) == (e.attr \div 16) % 2 = 1
is_volume_label(e) == (e.attr \div 8) % 2 = 1
is_available(e) == e.first = 0 \/ e.first = 229
is_end_of_directory(e) == e.first = 0

RECURSIVE ChainFrom(_, _, _)
\* while start != endmarker and start >= 2 and start < 0xfff8
ChainFrom(f, endmarker, start) ==
    IF start # endmarker /\ start >= 2 /\ start < 65528
    THEN <<start>> \o ChainFrom(f, endmarker, FatWord(f, start))
    ELSE <<>>

\* endmarker is word 1 of the first FAT copy f
get_cluster_no_chain(f, start) == ChainFrom(f, f[1], start)

\* the bytes of cluster c; an untracked cluster holds file data
ClusterAt(cl, c) == IF c \in DOMAIN cl THEN cl[c] ELSE Payload(c)

RECURSIVE DirYield(_, _, _, _)
\* the slots get_dir_entries yields from slot si of cluster chain[ci] on:
\* break leaves the loop over the slots of one cluster, not the loop over
\* the chain
DirYield(cl, chain, ci, si) ==
    IF ci > Len(chain) THEN <<>>
    ELSE IF si > SlotsPerCluster(bpb) THEN DirYield(cl, chain, ci + 1, 1)
    ELSE LET e == ClusterAt(cl, chain[ci])[si]
         IN IF is_end_of_directory(e) THEN DirYield(cl, chain, ci + 1, 1)
            ELSE IF is_available(e) THEN DirYield(cl, chain, ci, si + 1)
            ELSE <<[cluster |-> chain[ci], slot |-> si, chain |-> chain, ci |-> ci]>>
                   \o DirYield(cl, chain, ci, si + 1)

get_dir_entries(cl, f, startcluster) ==
    DirYield(cl, get_cluster_no_chain(f, startcluster), 1, 1)

RECURSIVE RootYield(_, _)
\* the slots root_dir_entries yields from slot si on; cluster 0 is the root
\* directory region
RootYield(rt, si) ==
    IF si > bpb.rootdirentrycount THEN <<>>
    ELSE IF is_end_of_directory(rt[si]) THEN <<>>
    ELSE IF is_available(rt[si]) THEN RootYield(rt, si + 1)
    ELSE <<[cluster |-> 0, slot |-> si, chain |-> <<>>, ci |-> 0]>>
           \o RootYield(rt, si + 1)

root_dir_entries(rt) == RootYield(rt, 1)

(***************************************************************************)
(* fixup_dir: the entries are changed in place while the walkers run       *)
(***************************************************************************)
SlotAt(st, loc) ==
    IF loc.cluster = 0 THEN st.root[loc.slot]
    ELSE ClusterAt(st.clusters, loc.cluster)[loc.slot]

\* e.start_cluster = c
SetStart(st, loc, c) ==
    IF loc.cluster = 0 THEN [st EXCEPT !.root[loc.slot].start = c]
    ELSE [st EXCEPT !.clusters[loc.cluster][loc.slot].start = c]

RECURSIVE FixEntry(_, _), FixChain(_, _, _, _), FixRoot(_, _)
\* the body of the loop of fixup_dir for the entry at loc
FixEntry(st, loc) ==
    LET e == SlotAt(st, loc)
        s1 == IF e.start < number_of_clusters(bpb)
              THEN SetStart(st, loc, CM(e.start)) ELSE st
        s2 == [s1 EXCEPT !.visited = Append(@, loc)]
        e1 == SlotAt(s1, loc)
    IN IF is_volume_label(e1) THEN s2
       ELSE IF is_directory(e1) /\ e1.name # "." /\ e1.name # ".."
            THEN FixChain([s2 EXCEPT !.descended = Append(@, loc)],
                          get_cluster_no_chain(fat[1], e1.start), 1, 1)
            ELSE s2

\* fixup_dir(self.get_dir_entries(e.start_cluster)), from slot si of chain[ci]
FixChain(st, chain, ci, si) ==
    IF ci > Len(chain) THEN st
    ELSE IF si > SlotsPerCluster(bpb) THEN FixChain(st, chain, ci + 1, 1)
    ELSE LET e == ClusterAt(st.clusters, chain[ci])[si]
         IN IF is_end_of_directory(e) THEN FixChain(st, chain, ci + 1, 1)
            ELSE IF is_available(e) THEN FixChain(st, chain, ci, si + 1)
            ELSE FixChain(FixEntry(st, [cluster |-> chain[ci], slot |-> si,
                                        chain |-> chain, ci |-> ci]),
                          chain, ci, si + 1)

\* fixup_dir(self.root_dir_entries), from slot si
FixRoot(st, si) ==
    IF si > bpb.rootdirentrycount THEN st
    ELSE IF is_end_of_directory(st.root[si]) THEN st
    ELSE IF is_available(st.root[si]) THEN FixRoot(st, si + 1)
    ELSE FixRoot(FixEntry(st, [cluster |-> 0, slot |-> si, chain |-> <<>>, ci |-> 0]),
                 si + 1)

FixupDirs ==
    /\ pc = "fixup"
    /\ LET st == FixRoot([root |-> root, clusters |-> clusters,
                          visited |-> <<>>, descended |-> <<>>], 1)
       IN /\ root' = st.root
          /\ clusters' = st.clusters
          /\ visited' = st.visited
          /\ descended' = st.descended
    /\ pc' = "done"
    /\ UNCHANGED <<bpb, fat, clustermap, swapmap, i, target, nexttarget, data,
                   nextdata, oldfat, k, image, clusters0, fat0, root0, reads,
                   writes, runs>>

\* the program is started again on the image it has written
Rerun ==
    /\ pc = "done" /\ runs < MaxRuns
    /\ pc' = "new"
    /\ clustermap' = <<>> /\ swapmap' = <<>> /\ i' = 0 /\ target' = None
    /\ nexttarget' = None /\ data' = NoData /\ nextdata' = NoData /\ oldfat' = <<>>
    /\ k' = 0 /\ visited' = <<>> /\ descended' = <<>>
    /\ clusters0' = <<>> /\ fat0' = <<>> /\ root0' = <<>>
    /\ reads' = {} /\ writes' = <<>>
    /\ UNCHANGED <<bpb, root, clusters, fat, image, runs>>

Next ==
    \/ Construct
    \/ DrawClustermap
    \/ SwapSkip
    \/ SwapBegin
    \/ SwapRead
    \/ SwapWrite
    \/ SwapCycleDone
    \/ SnapshotFat
    \/ RewriteFatEntry
    \/ SetScandiskFlag
    \/ FixupDirs

Spec == Init /\ [][Next]_vars

\* consecutive runs, on the images that hold a directory tree
InitRerun ==
    /\ image \in {"tree", "nested"}
    /\ bpb = ShuffleBPB
    /\ pc = "new"
    /\ root = Images[image].root
    /\ clusters = Images[image].clusters
    /\ fat = Images[image].fat
    /\ runs = 0
    /\ NoLocals

NextRerun == Next \/ Rerun

SpecRerun == InitRerun /\ [][NextRerun]_vars

(***************************************************************************)
(* Geometry check on its own: the boot parameter blocks around the limits  *)
(***************************************************************************)
\* a boot parameter block whose data area holds cnt - 2 whole clusters and,
\* with rem = 1, spc - 1 further sectors, the total written to the 16-bit field, to the 32-bit
\* field, or to the 16-bit field with other bytes in the 32-bit field
MakeBPB(ss, spc, nf, rde, cnt, rem, field) ==
    LET total == 1 + nf * 16 + Ceil(32 * rde, ss) + spc * (cnt - 2) + rem * (spc - 1)
        short == field # "32" /\ total <= 65535
    IN [sectorsize |-> ss, sectorspercluster |-> spc, reservedsectors |-> 1,
        numberoffats |-> nf, rootdirentrycount |-> rde,
        totalsectorcount16 |-> IF short THEN total ELSE 0,
        sectorsperfat |-> 16,
        totalsectorcount32 |-> IF short THEN (IF field = "both" THEN 1000000 ELSE 0)
                               ELSE total]

GeometryBPBs ==
    {MakeBPB(ss, spc, nf, rde, cnt, rem, field) :
        ss \in {512, 2048}, spc \in {1, 4}, nf \in {1, 2}, rde \in {16, 500},
        cnt \in {0, 2, 4085, 4086, 4087, 65524, 65525, 65526},
        rem \in {0, 1}, field \in {"16", "32", "both"}}

InitGeometry ==
    /\ image = "tree"
    /\ bpb \in GeometryBPBs
    /\ pc = "new"
    /\ root = Images[image].root
    /\ clusters = Images[image].clusters
    /\ fat = Images[image].fat
    /\ runs = 0
    /\ NoLocals

NextGeometry == Construct

SpecGeometry == InitGeometry /\ [][NextGeometry]_vars

(***************************************************************************)
(* Properties                                                              *)
(***************************************************************************)
N == number_of_clusters(bpb)
ValidCluster(c) == c >= 2 /\ c < N
LoopFinished == pc \in {"fat", "fixup"} \/ (pc = "outer" /\ i >= N)

RECURSIVE Power(_, _)
Power(c, n) == IF n = 0 THEN c ELSE clustermap[Power(c, n - 1)]
FullCycle == {Power(2, n) : n \in 1 .. Cardinality(Tracked)} = Tracked

\* C2: when the relocation loop has finished, physical cluster clustermap[c]
\* holds the data that physical cluster c held before the loop, for every
\* cluster c and every permutation.
RelocationMovesEveryCluster ==
    LoopFinished => \A c \in Tracked : clusters[clustermap[c]] = clusters0[c]

\* C2 witness: the loop has finished on a permutation that is one cycle
\* through every tracked cluster
RelocationFullCycleDone == pc = "outer" /\ i >= N /\ FullCycle

\* C3: after the FAT rewrite, in every FAT copy the word at clustermap[c] is
\* clustermap[o] when o is a valid cluster number and o otherwise, o being
\* word c of the first FAT copy before the rewrite.
FatRewrittenFromSnapshot ==
    pc \in {"fixup", "done"} =>
        \A kk \in 1 .. bpb.numberoffats, c \in Tracked :
            LET o == fat0[1][c]
            IN fat[kk][clustermap[c]] = IF ValidCluster(o) THEN CM(o) ELSE o

\* C3 witness: the rewrite is over, the two copies differed before it, and a
\* chain pointer and its target have both moved
FatRewrittenMovedChain ==
    /\ pc = "fixup" /\ fat0[1] # fat0[2]
    /\ \E c \in Tracked : /\ clustermap[c] # c /\ ValidCluster(fat0[1][c])
                          /\ CM(fat0[1][c]) # fat0[1][c]

\* the bytes the locals data and nextdata hold, in slots; two names for one
\* bytes object hold it once
InFlightSlots ==
    IF data = nextdata THEN Len(data) ELSE Len(data) + Len(nextdata)

\* C9 as stated: at every point of the relocation loop at most one cluster's
\* worth of data read from the image is held outside it.
OneClusterInFlight == InFlightSlots <= ClusterSize(bpb)

\* C9 amended: at every point of the relocation loop at most two clusters'
\* worth of data read from the image are held outside it.
TwoClustersInFlight == InFlightSlots <= 2 * ClusterSize(bpb)

\* C9 witness: between the read of the target slot and the write to it, two
\* clusters' worth are held
TwoClustersHeld == pc = "write" /\ InFlightSlots = 2 * ClusterSize(bpb)

\* C10: during the relocation loop the data every cluster c held before the
\* loop is at cluster c, at cluster clustermap[c] or in a held buffer; no
\* cluster is written before it was read, none is written twice.
NoClusterContentLost ==
    pc \in {"outer", "inner", "write", "fat"} =>
        \A c \in Tracked :
            /\ \/ clusters[c] = clusters0[c]
               \/ clusters[clustermap[c]] = clusters0[c]
               \/ data = clusters0[c]
               \/ nextdata = clusters0[c]
            /\ writes[c] <= 1
            /\ writes[c] = 1 => c \in reads

\* C10 witness: inside a cycle a cluster's old data is held only in a buffer
ContentOnlyInBuffer ==
    /\ pc = "inner" /\ target # None
    /\ \E c \in Tracked : /\ writes[c] = 1
                          /\ clusters[clustermap[c]] # clusters0[c]
                          /\ data = clusters0[c]

\* ceil(x / y), written out
CeilOf(x, y) == (x \div y) + (IF x % y = 0 THEN 0 ELSE 1)

\* the cluster count as C8 gives it
ClaimedClusterCount ==
    LET total == IF bpb.totalsectorcount16 # 0 THEN bpb.totalsectorcount16
                 ELSE bpb.totalsectorcount32
        rootsectors == CeilOf(32 * bpb.rootdirentrycount, bpb.sectorsize)
    IN 2 + (total - bpb.reservedsectors - bpb.numberoffats * bpb.sectorsperfat
              - rootsectors) \div bpb.sectorspercluster

ImageUntouched ==
    /\ root = Images[image].root
    /\ clusters = Images[image].clusters
    /\ fat = Images[image].fat

\* C8: when the cluster count is outside [4086, 65525] construction fails and
\* the image is unmodified; when it is inside, construction succeeds.
GeometryCheckedBeforeAnyWrite ==
    pc # "new" =>
        IF ClaimedClusterCount >= 4086 /\ ClaimedClusterCount <= 65525
        THEN pc # "failed"
        ELSE pc = "failed" /\ ImageUntouched

\* C8 witness: construction has failed on a count one above the range
ConstructionRejectedAbove == pc = "failed" /\ ClaimedClusterCount = 65526

\* C4: a chain that ended at the end marker before the run is, after the run,
\* walked from clustermap[s] as the images of its clusters, in order.
ChainsPreserved ==
    pc \in {"fixup", "done"} =>
        \A s \in Tracked :
            LET before == get_cluster_no_chain(fat0[1], s)
            IN (before # <<>> /\ FatWord(fat0[1], before[Len(before)]) = fat0[1][1])
               => get_cluster_no_chain(fat[1], clustermap[s])
                    = [n \in 1 .. Len(before) |-> clustermap[before[n]]]

RECURSIVE Below(_, _, _, _)
\* the entries of a listing and of every directory below it, descending as
\* the directory walker does: into directories that are neither volume
\* labels nor '.' nor '..'
Below(rt, cl, f, locs) ==
    IF locs = <<>> THEN <<>>
    ELSE LET loc == Head(locs)
             e == SlotAt([root |-> rt, clusters |-> cl], loc)
         IN <<loc>>
            \o (IF ~is_volume_label(e) /\ is_directory(e)
                   /\ e.name # "." /\ e.name # ".."
                THEN Below(rt, cl, f, get_dir_entries(cl, f, e.start))
                ELSE <<>>)
            \o Below(rt, cl, f, Tail(locs))

ReachableBefore == Below(root0, clusters0, fat0[1], root_dir_entries(root0))

\* the slot that was at loc before the run, where the run has put it
SlotNow(loc) ==
    IF loc.cluster = 0 THEN root[loc.slot]
    ELSE clusters[CM(loc.cluster)][loc.slot]

SlotBefore(loc) == SlotAt([root |-> root0, clusters |-> clusters0], loc)

\* C5: after the fix-up every in-use entry reachable from the root holds
\* clustermap[v] if its start cluster was a valid cluster number v, and 0 if
\* it was 0.
DirEntriesFixedUp ==
    pc = "done" =>
        \A n \in 1 .. Len(ReachableBefore) :
            LET loc == ReachableBefore[n]
                v == SlotBefore(loc).start
            IN /\ ValidCluster(v) => SlotNow(loc).start = CM(v)
               /\ v = 0 => SlotNow(loc).start = 0

\* C6: the fix-up leaves every volume-label entry unchanged, whatever its
\* start-cluster field holds, and does not descend into it.
VolumeLabelsUntouched ==
    pc = "done" =>
        /\ \A n \in 1 .. Len(ReachableBefore) :
              LET loc == ReachableBefore[n]
              IN is_volume_label(SlotBefore(loc)) => SlotNow(loc) = SlotBefore(loc)
        /\ \A n \in 1 .. Len(descended) :
              ~is_volume_label(SlotAt([root |-> root, clusters |-> clusters],
                                      descended[n]))

RECURSIVE SlotsUntilEndMarker(_, _, _, _)
\* the in-use slots of a chain up to its first end-of-directory marker
SlotsUntilEndMarker(cl, chain, ci, si) ==
    IF ci > Len(chain) THEN <<>>
    ELSE IF si > SlotsPerCluster(bpb) THEN SlotsUntilEndMarker(cl, chain, ci + 1, 1)
    ELSE LET e == ClusterAt(cl, chain[ci])[si]
         IN IF e.first = 0 THEN <<>>
            ELSE IF e.first = 229 THEN SlotsUntilEndMarker(cl, chain, ci, si + 1)
            ELSE <<[cluster |-> chain[ci], slot |-> si, chain |-> chain, ci |-> ci]>>
                   \o SlotsUntilEndMarker(cl, chain, ci, si + 1)

VisitedOf(chain) ==
    LET In(v) == v.chain = chain /\ v.ci > 0
    IN SelectSeq(visited, In)

\* C7: the directory walker yields, of a directory, the in-use slots before
\* the first end-of-directory marker in chain order and no slot after it, in
\* later clusters of the chain either.
WalkerStopsAtEndMarker ==
    pc = "done" =>
        \A n \in 1 .. Len(descended) :
            LET e == SlotAt([root |-> root, clusters |-> clusters], descended[n])
                chain == get_cluster_no_chain(fat[1], e.start)
            IN VisitedOf(chain) = SlotsUntilEndMarker(clusters, chain, 1, 1)

RECURSIVE Listing(_, _, _, _)
\* what a listing holds: per entry its name, its attributes and, for a file,
\* the contents of the clusters of its chain in order, for a directory, what
\* its own listing holds
Listing(rt, cl, f, locs) ==
    IF locs = <<>> THEN <<>>
    ELSE LET e == SlotAt([root |-> rt, clusters |-> cl], Head(locs))
             chain == get_cluster_no_chain(f, e.start)
         IN <<[name |-> e.name, attr |-> e.attr,
               content |->
                  IF is_volume_label(e) \/ e.name = "." \/ e.name = ".." THEN <<>>
                  ELSE IF is_directory(e)
                       THEN Listing(rt, cl, f, get_dir_entries(cl, f, e.start))
                       ELSE [n \in 1 .. Len(chain) |-> ClusterAt(cl, chain[n])]]>>
            \o Listing(rt, cl, f, Tail(locs))

LogicalContent(rt, cl, f) == Listing(rt, cl, f, root_dir_entries(rt))

\* C1: after one run and after every further run, every file reachable from
\* the root yields the same cluster contents in chain order as before the
\* first run, and every directory the same listing.
LogicalContentPreserved ==
    pc = "done" =>
        LogicalContent(root, clusters, fat[1])
          = LogicalContent(Images[image].root, Images[image].clusters,
                           Images[image].fat[1])
====
